---------------------------- MODULE Spec2Model ----------------------------
(***************************************************************************)
(* A model of src/document.py: class Document (a wrapper around a Python   *)
(* list that is stored by reference) and the demonstration routine main(). *)
(*                                                                         *)
(* Python lists are objects with identity, so the model keeps a heap of    *)
(* list objects and lets a Document hold a reference (an index into the    *)
(* heap).  0 stands for None.                                              *)
(***************************************************************************)
EXTENDS Naturals, Sequences, FiniteSets

\* Bound on the number of operations of one behaviour.
MaxOps == 6

\* The strings handed to add_word.
AddWords == {"foo", "world", ""}

\* The list literals a caller builds.
Inits == {<<>>, <<"Hello">>, <<"Hello", "foo">>}

\* What Deref yields for a reference that is no list (None).
NoList == <<"<None>">>

VARIABLES
    heap,     \* the list objects: heap[r] is the content of list object r
    docs,     \* the Document objects: docs[d] is d's attribute self.words (a reference)
    ret,      \* the reference returned by the last get_words() call (0: none yet)
    outcome,  \* how the last call ended: "ok" or the exception raised
    pc,       \* main()'s position: "idle" (not running), a line, or "done"
    loc,      \* main()'s locals words, d, d2 (0: unbound)
    op,       \* history: the last operation [name, doc, word]
    nops,     \* history: the number of operations so far
    hist,     \* history, per Document: what its constructor was given, what was appended
    retof,    \* history: the Document whose get_words() returned ret (0: none)
    streak    \* history: the current run of consecutive add_word calls on one Document

prog == <<heap, docs, ret, outcome>>
ghost == <<op, nops, hist, retof, streak>>
vars == <<heap, docs, ret, outcome, pc, loc, op, nops, hist, retof, streak>>

Refs == 1..Len(heap)
Docs == 1..Len(docs)

\* The content of the object a reference points to.
Deref(r) == IF r \in Refs THEN heap[r] ELSE NoList

\* What d.get_words() evaluates to in the current state.
Words(d) == Deref(docs[d])

Last(s) == s[Len(s)]

NoOp == [name |-> "none", doc |-> 0, word |-> "", list |-> 0, pname |-> "none", pdoc |-> 0]

\* The record of an operation: its name, the Document it was called on (or made),
\* the word and the list reference handed to it, and the operation before it.
Op(name, doc, word, list) ==
    [name |-> name, doc |-> doc, word |-> word, list |-> list,
     pname |-> op.name, pdoc |-> op.doc]
NoStreak == [doc |-> 0, base |-> <<>>, ws |-> <<>>]
NoLoc == [words |-> 0, d |-> 0, d2 |-> 0]

Init ==
    /\ heap = <<>>
    /\ docs = <<>>
    /\ ret = 0
    /\ outcome = "ok"
    /\ pc = "idle"
    /\ loc = NoLoc
    /\ op = NoOp
    /\ nops = 0
    /\ hist = <<>>
    /\ retof = 0
    /\ streak = NoStreak

(***************************************************************************)
(* The code.  Each operator changes exactly the program variables heap,    *)
(* docs, ret and outcome.                                                  *)
(***************************************************************************)

\* A list display such as ["Hello"]: a new list object.
list_literal(S) ==
    /\ heap' = Append(heap, S)
    /\ UNCHANGED <<docs, ret, outcome>>

\* Mutant of __init__: a defensive copy, self.words = list(words).
init_copy(words) ==
    /\ heap' = Append(heap, Deref(words))
    /\ docs' = Append(docs, Len(heap) + 1)
    /\ outcome' = "ok"
    /\ UNCHANGED ret

\* Mutant of __init__: the argument is dropped, self.words = [].
init_empty(words) ==
    /\ heap' = Append(heap, <<>>)
    /\ docs' = Append(docs, Len(heap) + 1)
    /\ outcome' = "ok"
    /\ UNCHANGED ret

\* Mutant of __init__: self.words = words or None.
init_or_none(words) ==
    /\ docs' = Append(docs, IF Deref(words) = <<>> THEN 0 ELSE words)
    /\ outcome' = "ok"
    /\ UNCHANGED <<heap, ret>>

\* Mutant of __init__: the class attribute is set, Document.words = words.
init_class_attr(words) ==
    /\ docs' = [d \in 1..(Len(docs) + 1) |-> words]
    /\ outcome' = "ok"
    /\ UNCHANGED <<heap, ret>>

\* Document.__init__(self, words): self.words = words.  The reference is stored,
\* nothing is copied; self is the new Document, number Len(docs) + 1.
__init__(words) ==
    /\ docs' = Append(docs, words)
    /\ outcome' = "ok"
    /\ UNCHANGED <<heap, ret>>

\* Mutant of add_word: self.words.insert(0, word).
add_word_front(self, word) ==
    /\ heap' = [heap EXCEPT ![docs[self]] = <<word>> \o @]
    /\ outcome' = "ok"
    /\ UNCHANGED <<docs, ret>>

\* Mutant of add_word: a word already present is not added again.
add_word_dedup(self, word) ==
    /\ heap' = [heap EXCEPT ![docs[self]] =
                   IF \E i \in 1..Len(@) : @[i] = word THEN @ ELSE Append(@, word)]
    /\ outcome' = "ok"
    /\ UNCHANGED <<docs, ret>>

\* Mutant of add_word: self.words = self.words + [word] (a new list is bound).
add_word_rebind(self, word) ==
    /\ heap' = Append(heap, Append(Deref(docs[self]), word))
    /\ docs' = [docs EXCEPT ![self] = Len(heap) + 1]
    /\ outcome' = "ok"
    /\ UNCHANGED ret

\* Document.add_word(self, word): self.words.append(word).  append is a method of
\* list objects; on None the attribute lookup raises AttributeError.
add_word(self, word) ==
    /\ IF docs[self] \in Refs
          THEN /\ heap' = [heap EXCEPT ![docs[self]] = Append(@, word)]
               /\ outcome' = "ok"
          ELSE /\ outcome' = "AttributeError"
               /\ UNCHANGED heap
    /\ UNCHANGED <<docs, ret>>

\* Mutant of get_words: the words are handed over and the Document is emptied.
get_words_drain(self) ==
    /\ heap' = Append([heap EXCEPT ![docs[self]] = <<>>], Deref(docs[self]))
    /\ ret' = Len(heap) + 1
    /\ outcome' = "ok"
    /\ UNCHANGED docs

\* Mutant of get_words: return list(self.words), a copy.
get_words_copy(self) ==
    /\ heap' = Append(heap, Deref(docs[self]))
    /\ ret' = Len(heap) + 1
    /\ outcome' = "ok"
    /\ UNCHANGED docs

\* Document.get_words(self): return self.words.  The reference is returned.
get_words(self) ==
    /\ ret' = docs[self]
    /\ outcome' = "ok"
    /\ UNCHANGED <<heap, docs>>

(***************************************************************************)
(* One call of each operation, with the history it leaves.                 *)
(***************************************************************************)

NewList(S) ==
    /\ list_literal(S)
    /\ op' = Op("list", 0, "", Len(heap) + 1)
    /\ nops' = nops + 1
    /\ streak' = NoStreak
    /\ UNCHANGED <<hist, retof>>

\* Document(words), words a reference to a list; from is the Document whose
\* get_words() produced the reference (0: the caller's own list).
Construct(words, from) ==
    /\ __init__(words)
    /\ op' = Op("construct", Len(docs) + 1, "", words)
    /\ nops' = nops + 1
    /\ hist' = Append(hist, [arg |-> words, init |-> Deref(words), from |-> from,
                             own |-> <<>>, since |-> <<>>])
    /\ streak' = NoStreak
    /\ UNCHANGED retof

AddWord(d, w) ==
    /\ add_word(d, w)
    /\ op' = Op("add_word", d, w, 0)
    /\ nops' = nops + 1
    /\ hist' = [e \in DOMAIN hist |->
                  [hist[e] EXCEPT
                     !.own = IF e = d THEN Append(@, w) ELSE @,
                     !.since = IF hist[e].arg = hist[d].arg THEN Append(@, w) ELSE @]]
    /\ streak' = IF op.name = "add_word" /\ op.doc = d
                    THEN [streak EXCEPT !.ws = Append(@, w)]
                    ELSE [doc |-> d, base |-> Words(d), ws |-> <<w>>]
    /\ UNCHANGED retof

GetWords(d) ==
    /\ get_words(d)
    /\ op' = Op("get_words", d, "", 0)
    /\ nops' = nops + 1
    /\ retof' = d
    /\ streak' = NoStreak
    /\ UNCHANGED hist

(***************************************************************************)
(* A client of the class: any sequence of calls.  Python runs one call at  *)
(* a time, so the client does not run while main() does.                   *)
(***************************************************************************)

ClientNewList ==
    /\ pc = "idle" /\ nops < MaxOps
    /\ \E S \in Inits : NewList(S)
    /\ UNCHANGED <<pc, loc>>

\* d = Document(L) for a list L the caller holds.
ClientConstruct ==
    /\ pc = "idle" /\ nops < MaxOps
    /\ \E l \in Refs : Construct(l, 0)
    /\ UNCHANGED <<pc, loc>>

\* d2 = Document(d1.get_words()).
ClientConstructFromGet ==
    /\ pc = "idle" /\ nops < MaxOps
    /\ ret # 0
    /\ Construct(ret, retof)
    /\ UNCHANGED <<pc, loc>>

ClientAddWord ==
    /\ pc = "idle" /\ nops < MaxOps
    /\ \E d \in Docs, w \in AddWords : AddWord(d, w)
    /\ UNCHANGED <<pc, loc>>

ClientGetWords ==
    /\ pc = "idle" /\ nops < MaxOps
    /\ \E d \in Docs : GetWords(d)
    /\ UNCHANGED <<pc, loc>>

(***************************************************************************)
(* main(), line by line.                                                   *)
(***************************************************************************)

\* The number of operations one run of main() makes.
MainOps == 5

main_call ==
    /\ pc = "idle" /\ nops + MainOps <= MaxOps
    /\ pc' = "l16"
    /\ UNCHANGED <<prog, loc, ghost>>

\* words = ["Hello"]
main_l16 ==
    /\ pc = "l16"
    /\ NewList(<<"Hello">>)
    /\ loc' = [loc EXCEPT !.words = Len(heap) + 1]
    /\ pc' = "l17"

\* d = Document(words)
main_l17 ==
    /\ pc = "l17"
    /\ Construct(loc.words, 0)
    /\ loc' = [loc EXCEPT !.d = Len(docs) + 1]
    /\ pc' = "l19"

\* the argument of line 19: d.get_words()
main_l19_get ==
    /\ pc = "l19"
    /\ GetWords(loc.d)
    /\ pc' = "l19_new"
    /\ UNCHANGED loc

\* d2 = Document(<the value of d.get_words()>)
main_l19_new ==
    /\ pc = "l19_new"
    /\ Construct(ret, retof)
    /\ loc' = [loc EXCEPT !.d2 = Len(docs) + 1]
    /\ pc' = "l20"

\* d2.add_word("world"), and main() is at its end
main_l20 ==
    /\ pc = "l20"
    /\ AddWord(loc.d2, "world")
    /\ pc' = "done"
    /\ UNCHANGED loc

\* main() returns: its locals are gone.
main_return ==
    /\ pc = "done"
    /\ pc' = "idle"
    /\ loc' = NoLoc
    /\ UNCHANGED <<prog, ghost>>

main ==
    \/ main_call
    \/ main_l16
    \/ main_l17
    \/ main_l19_get
    \/ main_l19_new
    \/ main_l20
    \/ main_return

Next ==
    \/ ClientNewList
    \/ ClientConstruct
    \/ ClientConstructFromGet
    \/ ClientAddWord
    \/ ClientGetWords
    \/ main

Spec == Init /\ [][Next]_vars

(***************************************************************************)
(* The caller keeps the list it passed to Document() and appends to it     *)
(* itself, as main() could with its local words.                           *)
(***************************************************************************)

CallerAppend ==
    /\ pc = "idle" /\ nops < MaxOps
    /\ \E l \in Refs, w \in AddWords :
          /\ heap' = [heap EXCEPT ![l] = Append(@, w)]
          /\ op' = Op("caller_append", 0, w, l)
    /\ nops' = nops + 1
    /\ streak' = NoStreak
    /\ UNCHANGED <<docs, ret, outcome, pc, loc, hist, retof>>

NextCaller == Next \/ CallerAppend

SpecCaller == Init /\ [][NextCaller]_vars

\* main() is straight-line code that the interpreter runs to its end.
main_step == main_l16 \/ main_l17 \/ main_l19_get \/ main_l19_new \/ main_l20

SpecMain == Spec /\ WF_vars(main_step)

(***************************************************************************)
(* The claims.                                                             *)
(***************************************************************************)

\* C1: when d.add_word(w) directly follows d = Document(S), get_words() is S
\* followed by w: the elements of S, in their order, and then w.
C1_AddWordAfterConstruct ==
    (op.name = "add_word" /\ op.pname = "construct" /\ op.pdoc = op.doc)
        => Words(op.doc) = Append(hist[op.doc].init, op.word)

\* C1's case: add_word directly after the construction from a non-empty S.
C1_Witness ==
    /\ op.name = "add_word" /\ op.pname = "construct" /\ op.pdoc = op.doc
    /\ Len(hist[op.doc].init) = 2
    /\ op.word = "foo"

\* C2 as stated: each Document's words are the sequence its constructor was given
\* followed by the strings appended through that same Document, and nothing else.
C2_OwnAppendsOnly ==
    \A d \in Docs : Words(d) = hist[d].init \o hist[d].own

\* C2, amended: each Document's words are the sequence its constructor was given, as
\* it was at that call, followed by the strings appended since then through any
\* Document constructed on the same list object, in call order.
C2_SharedAppends ==
    \A d \in Docs : Words(d) = hist[d].init \o hist[d].since

\* C2's case: a Document that was appended to, and whose list also grew through
\* another Document.
C2_Witness ==
    \E d \in Docs :
        /\ hist[d].own # <<>>
        /\ Len(hist[d].since) > Len(hist[d].own)

\* C3: a Document built from another's get_words() shares its list object, so an
\* add_word on either shows as the last word of the other; and the literal scenario
\* Document(["Hello"]), add_word("foo"), Document(d.get_words()), add_word("world")
\* ends with both Documents at ["Hello", "foo", "world"].
C3_Aliasing ==
    /\ \A d \in Docs : hist[d].from # 0 => docs[d] = docs[hist[d].from]
    /\ op.name = "add_word" =>
          \A e \in Docs :
              (hist[e].from = op.doc \/ hist[op.doc].from = e)
                  => Last(Words(e)) = op.word
    /\ ( /\ Len(docs) = 2
         /\ hist[1].init = <<"Hello">> /\ hist[1].own = <<"foo">>
         /\ hist[2].from = 1 /\ hist[2].init = <<"Hello", "foo">>
         /\ hist[2].own = <<"world">> )
          => /\ Words(1) = <<"Hello", "foo", "world">>
             /\ Words(2) = <<"Hello", "foo", "world">>

\* C3's case: the literal scenario has run.
C3_Witness ==
    /\ Len(docs) = 2
    /\ hist[1].init = <<"Hello">> /\ hist[1].own = <<"foo">>
    /\ hist[2].from = 1 /\ hist[2].init = <<"Hello", "foo">>
    /\ hist[2].own = <<"world">>
    /\ op.name = "add_word" /\ op.doc = 2

\* C4: after n consecutive add_word calls on d, get_words() is what it was before
\* them followed by the n words in call order, so n longer; duplicates are kept.
C4_ConsecutiveAppends ==
    streak.doc # 0 =>
        /\ Words(streak.doc) = streak.base \o streak.ws
        /\ Len(Words(streak.doc)) = Len(streak.base) + Len(streak.ws)

\* C4's case: three consecutive calls, two of them with the same word, on a
\* Document that already held that word.
C4_Witness ==
    /\ streak.doc # 0
    /\ streak.ws = <<"foo", "foo", "world">>
    /\ streak.base = <<"Hello", "foo">>

\* C5: get_words() directly after Document(S) returns S: the list object that was
\* passed, with the content it had; an empty S gives an empty result.
C5_GetWordsAfterConstruct ==
    (op.name = "get_words" /\ op.pname = "construct" /\ op.pdoc = op.doc)
        => /\ ret = hist[op.doc].arg
           /\ Deref(ret) = hist[op.doc].init
           /\ (hist[op.doc].init = <<>> => Len(Deref(ret)) = 0)

\* C5's case: get_words() directly after the construction from the empty sequence.
C5_Witness ==
    /\ op.name = "get_words" /\ op.pname = "construct" /\ op.pdoc = op.doc
    /\ hist[op.doc].init = <<>>

\* C6: a step that changes what some existing Document's get_words() gives is an
\* add_word call; Construct and GetWords change no existing Document's sequence.
C6_OnlyAddWordMutates ==
    [][\A d \in Docs :
          Words(d)' # Words(d) => (nops' = nops + 1 /\ op'.name = "add_word")]_vars

\* C6's case: a get_words() call that follows a construction while a Document with a
\* non-empty sequence exists.
C6_Witness ==
    /\ op.name = "get_words" /\ op.pname = "construct"
    /\ \E d \in Docs : Len(Words(d)) >= 2

\* C7: no call ends in an error, whatever the sequence (the empty one included) and
\* whatever the word (the empty string included).
C7_NoError ==
    outcome = "ok"

\* C7's case: the empty string added to a Document built from the empty sequence.
C7_Witness ==
    /\ op.name = "add_word" /\ op.word = ""
    /\ hist[op.doc].init = <<>>

\* C8: the Document holds the very list L it was given: a word added through the
\* Document is the last element of L, and after the caller appends to L the
\* Document's get_words() is L, the caller's word last.
C8_NoCopy ==
    /\ \A d \in Docs : docs[d] = hist[d].arg
    /\ op.name = "add_word" => Last(Deref(hist[op.doc].arg)) = op.word
    /\ op.name = "caller_append" =>
          \A d \in Docs :
              hist[d].arg = op.list
                  => Words(d) = Deref(op.list) /\ Last(Words(d)) = op.word

\* C8's case: the caller appends to a list right after a Document built on that
\* list was appended to.
C8_Witness ==
    /\ op.name = "caller_append" /\ op.pname = "add_word"
    /\ hist[op.pdoc].arg = op.list

\* C9: main() reaches its end, without an error, and there words, d.get_words() and
\* d2.get_words() are all ["Hello", "world"].
C9_Main ==
    /\ [](pc = "done" =>
            /\ outcome = "ok"
            /\ Deref(loc.words) = <<"Hello", "world">>
            /\ Words(loc.d) = <<"Hello", "world">>
            /\ Words(loc.d2) = <<"Hello", "world">>)
    /\ (pc = "l16" ~> pc = "done")

\* C9's case: main() is at its end.
C9_Witness ==
    pc = "done"

\* C10: add_word on a Document leaves the sequence of every Document that was
\* constructed on another list object unchanged.
C10_Isolation ==
    [][\A d \in Docs, e \in Docs :
          ( /\ nops' = nops + 1 /\ op'.name = "add_word" /\ op'.doc = d
            /\ hist[d].arg # hist[e].arg /\ hist[d].from # e /\ hist[e].from # d )
              => Words(e)' = Words(e)]_vars

\* C10's case: two Documents on distinct lists, each appended to, in turn.
C10_Witness ==
    /\ op.name = "add_word" /\ op.pname = "add_word" /\ op.pdoc # op.doc
    /\ hist[op.doc].arg # hist[op.pdoc].arg
    /\ Len(hist[op.doc].since) >= 1 /\ Len(hist[op.pdoc].since) >= 1

=============================================================================
